---- MODULE Spec2Model ----
(***************************************************************************)
(* Personal-Tracker: the FinancialEngine (src/js/financial-engine.js) as   *)
(* driven by the expense page (src/expense.js), and the habit functions of *)
(* the habit page (habit.js) and of the single-page script at the end of   *)
(* src/js/financial-engine.js.                                             *)
(*                                                                         *)
(* Numbers are JavaScript doubles in the source.  The model computes with  *)
(* exact rationals <<n, d>> (d > 0, lowest terms), so a comparison that    *)
(* depends on binary rounding error is outside the model.                  *)
(*                                                                         *)
(* Time.  An instant is a number of minutes since 2025-01-01T00:00Z; the   *)
(* environment's time zone is an offset in minutes.  Date.toISOString()    *)
(* reads the UTC calendar, Date.getDate/getMonth/getDay/getHours read the  *)
(* local calendar; the model keeps the two apart.                          *)
(***************************************************************************)
EXTENDS Integers, Sequences, FiniteSets

VARIABLES
    finances,        \* expense.js:13  the ledger, a sequence of transactions
    monthlyBudget,   \* expense.js:14  {} is null, {v} is the number v
    now,             \* the evaluation instant (what new Date() returns)
    tz,              \* the environment's UTC offset, minutes
    state,           \* result of calculateState
    risks,           \* result of runRiskEngine
    behavior,        \* result of runBehaviorModel
    alerts,          \* result of getAlerts
    stats,           \* result of calculateFinanceStats
    script,          \* the page script that is running
    activities,      \* habit.js:11, financial-engine.js:317  the habit records
    habitLogs,       \* habit.js:12, financial-engine.js:319  date -> habits done on it
    habitStats,      \* habit.js:185  result of calculateHabitStats
    calls,           \* habit.js markDone invocations waiting at their first await
    storeActivities, \* the stored 'activities' collection of the habit page
    storeHabitLogs,  \* the stored 'habitLogs' collection, date -> habits
    currentUser,     \* expense.js:17  {} in local-only mode, {uid} when signed in
    storeFinances,   \* the stored 'finances' collection
    storeBudget,     \* the stored 'monthlyBudget' collection
    storeEngineState,\* the stored 'engineState' collection
    finSnapshot,     \* a snapshot of 'finances' waits to be delivered
    budSnapshot,     \* a snapshot of 'monthlyBudget' waits to be delivered
    currentEngineState, \* expense.js:24  the context given to the chat
    sessionStorage,  \* expense.js:458  alert key -> instant the alert was last shown
    notifications,   \* the NotificationService.show calls made, in order
    apiKeys,         \* CONFIG.GROQ_API_KEYS: {} when none is configured
    attempt,         \* ai-service.js:20  the attempt argument of the running call
    responses,       \* the responses to the requests issued so far
    outcome          \* how the chatWithRetry promise stands

vars == <<finances, monthlyBudget, now, tz, state, risks, behavior, alerts, stats,
          script, activities, habitLogs, habitStats,
          calls, storeActivities, storeHabitLogs,
          currentUser, storeFinances, storeBudget, storeEngineState,
          finSnapshot, budSnapshot, currentEngineState,
          sessionStorage, notifications,
          apiKeys, attempt, responses, outcome>>

habitVars == <<script, activities, habitLogs, habitStats>>
raceVars == <<calls, storeActivities, storeHabitLogs>>
storeVars == <<currentUser, storeFinances, storeBudget, storeEngineState,
               finSnapshot, budSnapshot, currentEngineState>>
noticeVars == <<sessionStorage, notifications>>
aiVars == <<apiKeys, attempt, responses, outcome>>

\* expense.js:24
EmptyEngineState == [state |-> <<>>, risks |-> <<>>, behavior |-> <<>>]

\* the parts of the program a specification leaves at rest
RaceIdle == calls = <<>> /\ storeActivities = <<>> /\ storeHabitLogs = <<>>
StoreIdle ==
    /\ currentUser = {}
    /\ storeFinances = <<>>
    /\ storeBudget = <<>>
    /\ storeEngineState = <<>>
    /\ finSnapshot = FALSE
    /\ budSnapshot = FALSE
    /\ currentEngineState = EmptyEngineState
NoticeIdle == sessionStorage = <<>> /\ notifications = {}
AIIdle == apiKeys = {} /\ attempt = 0 /\ responses = <<>> /\ outcome = "idle"

-----------------------------------------------------------------------------
(* Bounds *)

MaxTx == 3

-----------------------------------------------------------------------------
(* Exact rational arithmetic standing for JavaScript number arithmetic *)

RECURSIVE Gcd(_, _)
Gcd(a, b) == IF b = 0 THEN a ELSE Gcd(b, a % b)

IAbs(i) == IF i < 0 THEN -i ELSE i

Rat(n, d) ==
    LET s == IF d < 0 THEN -1 ELSE 1
        g == Gcd(IAbs(n), IAbs(d))
    IN  <<(s * n) \div g, (s * d) \div g>>

RatOf(i) == <<i, 1>>
RatAdd(a, b) == Rat(a[1] * b[2] + b[1] * a[2], a[2] * b[2])
RatSub(a, b) == Rat(a[1] * b[2] - b[1] * a[2], a[2] * b[2])
RatMul(a, b) == Rat(a[1] * b[1], a[2] * b[2])
RatDiv(a, b) == Rat(a[1] * b[2], a[2] * b[1])
RatLt(a, b) == a[1] * b[2] < b[1] * a[2]
RatLe(a, b) == a[1] * b[2] <= b[1] * a[2]
RatMax(a, b) == IF RatLt(a, b) THEN b ELSE a
RatMin(a, b) == IF RatLt(b, a) THEN b ELSE a
RatAbs(a) == <<IAbs(a[1]), a[2]>>
\* Math.round: the nearest integer, ties towards +Infinity
MathRound(a) == (2 * a[1] + a[2]) \div (2 * a[2])

-----------------------------------------------------------------------------
(* Calendar of the year 2025; a day index counts days from 2025-01-01 = 0 *)

MonthLen == <<31, 28, 31, 30, 31, 30, 31, 31, 30, 31, 30, 31>>
MonthStart == <<0, 31, 59, 90, 120, 151, 181, 212, 243, 273, 304, 334>>

\* the month m with MonthStart[m] <= n < MonthStart[m] + MonthLen[m]
MonthOfDay(n) ==
    IF n < 181
    THEN IF n < 90
         THEN (IF n < 31 THEN 1 ELSE IF n < 59 THEN 2 ELSE 3)
         ELSE (IF n < 120 THEN 4 ELSE IF n < 151 THEN 5 ELSE 6)
    ELSE IF n < 273
         THEN (IF n < 212 THEN 7 ELSE IF n < 243 THEN 8 ELSE 9)
         ELSE (IF n < 304 THEN 10 ELSE IF n < 334 THEN 11 ELSE 12)
\* the calendar date "YYYY-MM-DD" of a day index, as <<year, month, day>>
DateOfDay(n) == LET m == MonthOfDay(n) IN <<2025, m, n - MonthStart[m] + 1>>
DayOfDate(date) == MonthStart[date[2]] + date[3] - 1

\* now.toISOString().slice(0, 10)
toISODate(t) == DateOfDay(t \div 1440)
\* the local calendar day index of an instant
LocalDay(t, zone) == (t + zone) \div 1440
\* Date.getDate()
getDate(t, zone) == DateOfDay(LocalDay(t, zone))[3]
\* Date.getMonth() + 1
getMonth1(t, zone) == DateOfDay(LocalDay(t, zone))[2]
\* new Date(y, m + 1, 0).getDate()
daysInMonthOf(t, zone) == MonthLen[getMonth1(t, zone)]
\* Date.getDay(): 0 = Sunday; 2025-01-01 is a Wednesday
getDay(t, zone) == (LocalDay(t, zone) + 3) % 7
\* Date.getHours()
getHours(t, zone) == ((t + zone) % 1440) \div 60
\* new Date("YYYY-MM-DD"): a date-only string is UTC midnight
parseISODate(date) == DayOfDate(date) * 1440

-----------------------------------------------------------------------------
(* Nullable numbers: {} is null/undefined, {v} is v *)

Null == {}
Num(v) == {v}
\* ToNumber: null is 0
ToNumber(b) == IF b = {} THEN 0 ELSE CHOOSE v \in b : TRUE
\* ToBoolean of a nullable number
Truthy(b) == ToNumber(b) # 0

RECURSIVE SumAmount(_)
\* .reduce((sum, f) => sum + f.amount, 0)
SumAmount(s) == IF s = <<>> THEN 0 ELSE s[1].amount + SumAmount(Tail(s))

-----------------------------------------------------------------------------
(* FinancialEngine.calculateState *)

\* a filter that forgets the type test
IsMonthAnyType(f, currentMonth) == SubSeq(f.dateISO, 1, 2) = currentMonth

IsMonthExpense(f, currentMonth) ==
    f.type = "expense" /\ SubSeq(f.dateISO, 1, 2) = currentMonth

\* the income filter left as a copy of the expense filter
IsMonthIncomeCopied(f, currentMonth) ==
    f.type = "expense" /\ SubSeq(f.dateISO, 1, 2) = currentMonth

IsMonthIncome(f, currentMonth) ==
    f.type = "income" /\ SubSeq(f.dateISO, 1, 2) = currentMonth

\* the Warning test tried before the Critical test
SafetyLevelWarningFirst(projectedEndBalance, budget) ==
    IF RatLt(projectedEndBalance, RatMul(RatOf(ToNumber(budget)), Rat(15, 100)))
    THEN "Warning"
    ELSE IF RatLt(projectedEndBalance, RatOf(0)) THEN "Critical" ELSE "Stable"

\* <= where the source has <
SafetyLevelInclusive(projectedEndBalance, budget) ==
    IF RatLe(projectedEndBalance, RatOf(0)) THEN "Critical"
    ELSE IF RatLe(projectedEndBalance, RatMul(RatOf(ToNumber(budget)), Rat(15, 100)))
         THEN "Warning"
         ELSE "Stable"

SafetyLevelOf(projectedEndBalance, budget) ==
    IF RatLt(projectedEndBalance, RatOf(0)) THEN "Critical"
    ELSE IF RatLt(projectedEndBalance, RatMul(RatOf(ToNumber(budget)), Rat(15, 100)))
         THEN "Warning"
         ELSE "Stable"

\* the month's expenses divided by the day after the current one
BurnRateByNextDay(monthExpenses, currentDay) == Rat(monthExpenses, currentDay + 1)

\* line 26: currentDay > 0 ? monthExpenses / currentDay : 0
BurnRatePerDayOf(monthExpenses, currentDay) ==
    IF currentDay > 0 THEN Rat(monthExpenses, currentDay) ELSE RatOf(0)

calculateState(fin, budget, t, zone) ==
    LET todayStr == toISODate(t)
        currentMonth == SubSeq(todayStr, 1, 2)
        daysInMonth == daysInMonthOf(t, zone)
        currentDay == getDate(t, zone)
        monthExpenses == SumAmount(SelectSeq(fin, LAMBDA f : IsMonthExpense(f, currentMonth)))
        monthIncome == SumAmount(SelectSeq(fin, LAMBDA f : IsMonthIncome(f, currentMonth)))
        budgetOr0 == IF Truthy(budget) THEN ToNumber(budget) ELSE 0
        balanceLeft == budgetOr0 - monthExpenses
        burnRatePerDay == BurnRatePerDayOf(monthExpenses, currentDay)
        projectedEndBalance ==
            RatSub(RatOf(budgetOr0), RatMul(burnRatePerDay, RatOf(daysInMonth)))
    IN  [balanceLeft |-> balanceLeft,
         burnRatePerDay |-> burnRatePerDay,
         projectedEndBalance |-> projectedEndBalance,
         safetyLevel |-> SafetyLevelOf(projectedEndBalance, budget),
         monthExpenses |-> monthExpenses,
         monthIncome |-> monthIncome]

-----------------------------------------------------------------------------
(* calculateFinanceStats (analytics.js): the totals its forEach gathers *)

RECURSIVE calculateFinanceStats(_, _)
calculateFinanceStats(fin, t) ==
    IF fin = <<>>
    THEN [totalExpenses |-> 0, totalIncome |-> 0, monthlyExpenses |-> 0,
          monthlyIncome |-> 0, todayExpenses |-> 0]
    ELSE LET currentMonth == SubSeq(toISODate(t), 1, 2)
             todayStr == toISODate(t)
             f == fin[Len(fin)]
             acc == calculateFinanceStats(SubSeq(fin, 1, Len(fin) - 1), t)
             inMonth == SubSeq(f.dateISO, 1, 2) = currentMonth
         IN  IF f.type = "expense"
             THEN [acc EXCEPT
                     !.totalExpenses = @ + f.amount,
                     !.monthlyExpenses = IF inMonth THEN @ + f.amount ELSE @,
                     !.todayExpenses = IF f.dateISO = todayStr THEN @ + f.amount ELSE @]
             ELSE IF f.type = "income"
                  THEN [acc EXCEPT
                          !.totalIncome = @ + f.amount,
                          !.monthlyIncome = IF inMonth THEN @ + f.amount ELSE @]
                  ELSE acc

-----------------------------------------------------------------------------
(* calculateHabitStats (analytics.js) *)

\* habitLogs[date] || []
LogOf(logs, date) == IF date \in DOMAIN logs THEN logs[date] ELSE <<>>

\* >= 0 where the source has > 0
IsActiveOrIdle(habit) == habit.streak >= 0

\* line 27: streak > 0
IsActiveHabit(habit) == habit.streak > 0

RECURSIVE MaxStreak(_)
\* lines 24-26: the running maximum, from 0
MaxStreak(habits) ==
    IF habits = <<>> THEN 0
    ELSE LET rest == MaxStreak(Tail(habits))
         IN  IF habits[1].streak > rest THEN habits[1].streak ELSE rest

RECURSIVE SumStreak(_)
SumStreak(habits) == IF habits = <<>> THEN 0 ELSE habits[1].streak + SumStreak(Tail(habits))

\* the loop of lines 34-39: d.setDate(today.getDate() - i); d.toISOString().slice(0, 10)
weekDatesOf(t) ==
    << toISODate(t), toISODate(t - 1440), toISODate(t - 2 * 1440), toISODate(t - 3 * 1440),
       toISODate(t - 4 * 1440), toISODate(t - 5 * 1440), toISODate(t - 6 * 1440) >>

\* lines 44-47: the lengths of the logs of the week's dates, summed
totalCompletedOf(logs, weekDates) ==
    Len(LogOf(logs, weekDates[1])) + Len(LogOf(logs, weekDates[2]))
    + Len(LogOf(logs, weekDates[3])) + Len(LogOf(logs, weekDates[4]))
    + Len(LogOf(logs, weekDates[5])) + Len(LogOf(logs, weekDates[6]))
    + Len(LogOf(logs, weekDates[7]))

calculateHabitStats(habits, logs, t) ==
    IF Len(habits) = 0
    THEN [totalHabits |-> 0, activeHabits |-> 0, totalStreak |-> 0, longestStreak |-> 0,
          completionRate |-> 0, weeklyCompletion |-> 0]
    ELSE LET totalPossible == Len(habits) * 7
             totalCompleted == totalCompletedOf(logs, weekDatesOf(t))
             weeklyCompletion ==
                 IF totalPossible > 0
                 THEN MathRound(RatMul(Rat(totalCompleted, totalPossible), RatOf(100)))
                 ELSE 0
         IN  [totalHabits |-> Len(habits),
              activeHabits |-> Len(SelectSeq(habits, IsActiveHabit)),
              totalStreak |-> SumStreak(habits),
              longestStreak |-> MaxStreak(habits),
              completionRate |-> weeklyCompletion,
              weeklyCompletion |-> weeklyCompletion]

-----------------------------------------------------------------------------
(* FinancialEngine.runRiskEngine *)

OverspendRiskOf(budgetUsedPercent, daysPassedPercent) ==
    RatMax(RatOf(0), RatSub(budgetUsedPercent, daysPassedPercent))

\* the deficit risk without its Math.min(100, ...)
DeficitRiskUnclamped(projectedEndBalance, budget) ==
    IF RatLt(projectedEndBalance, RatOf(0))
    THEN RatMul(RatAbs(RatDiv(projectedEndBalance, RatOf(ToNumber(budget)))), RatOf(100))
    ELSE RatOf(0)

DeficitRiskOf(projectedEndBalance, budget) ==
    IF RatLt(projectedEndBalance, RatOf(0))
    THEN RatMin(RatOf(100),
                RatMul(RatAbs(RatDiv(projectedEndBalance, RatOf(ToNumber(budget)))), RatOf(100)))
    ELSE RatOf(0)

\* the composite score without its Math.min(100, ...)
RiskScoreUnclamped(overspendRisk, deficitRisk) ==
    RatAdd(RatMul(overspendRisk, Rat(6, 10)), RatMul(deficitRisk, Rat(4, 10)))

RiskScoreOf(overspendRisk, deficitRisk) ==
    RatMin(RatOf(100),
           RatAdd(RatMul(overspendRisk, Rat(6, 10)), RatMul(deficitRisk, Rat(4, 10))))

runRiskEngine(st, budget, t, zone) ==
    IF ~Truthy(budget)
    THEN [overspendRisk |-> 0, deficitRisk |-> 0, riskScore |-> 0]
    ELSE LET budgetUsedPercent ==
                 RatMul(Rat(st.monthExpenses, ToNumber(budget)), RatOf(100))
             daysPassedPercent ==
                 RatMul(Rat(getDate(t, zone), daysInMonthOf(t, zone)), RatOf(100))
             overspendRisk == OverspendRiskOf(budgetUsedPercent, daysPassedPercent)
             deficitRisk == DeficitRiskOf(st.projectedEndBalance, budget)
             riskScore == RiskScoreOf(overspendRisk, deficitRisk)
         IN  [overspendRisk |-> MathRound(overspendRisk),
              deficitRisk |-> MathRound(deficitRisk),
              riskScore |-> MathRound(riskScore)]

-----------------------------------------------------------------------------
(* FinancialEngine.runBehaviorModel *)

\* the loop of lines 72-77: d.setDate(d.getDate() - i); d.toISOString().slice(0, 10)
last7DaysOf(t) ==
    << toISODate(t), toISODate(t - 1440), toISODate(t - 2 * 1440), toISODate(t - 3 * 1440),
       toISODate(t - 4 * 1440), toISODate(t - 5 * 1440), toISODate(t - 6 * 1440) >>

InLast7Days(f, last7Days) == \E i \in 1..7 : last7Days[i] = f.dateISO

RECURSIVE FirstSeen(_, _)
\* the keys of catTotals in insertion order
FirstSeen(s, seen) ==
    IF s = <<>> THEN <<>>
    ELSE IF s[1].category \in seen THEN FirstSeen(Tail(s), seen)
         ELSE <<s[1].category>> \o FirstSeen(Tail(s), seen \cup {s[1].category})

catTotalOf(recentExpenses, cat) ==
    SumAmount(SelectSeq(recentExpenses, LAMBDA f : f.category = cat))

\* >= 5000 where the source has > 5000
categorySpikesInclusive(recentExpenses) ==
    SelectSeq(FirstSeen(recentExpenses, {}),
              LAMBDA cat : catTotalOf(recentExpenses, cat) >= 5000)

categorySpikesOf(recentExpenses) ==
    SelectSeq(FirstSeen(recentExpenses, {}),
              LAMBDA cat : catTotalOf(recentExpenses, cat) > 5000)

IsImpulse(f) == f.amount > 100 /\ f.amount < 1000

IsWeekend(f, zone) ==
    LET day == getDay(parseISODate(f.dateISO), zone) IN day = 0 \/ day = 6

IsWeekday(f, zone) ==
    LET day == getDay(parseISODate(f.dateISO), zone) IN day >= 1 /\ day <= 5

\* s.reduce(...) / (s.length || 1)
MeanAmount(s) == Rat(SumAmount(s), IF Len(s) # 0 THEN Len(s) ELSE 1)

IsLateNight(f, zone) ==
    IF f.timestamp = Null THEN FALSE
    ELSE LET hour == getHours(ToNumber(f.timestamp), zone)
         IN  hour >= 22 \/ hour <= 5

\* the absolute floor of line 98 left out
AbnormalVelocityNoFloor(todayPrice, avgDaily) ==
    RatLt(RatMul(avgDaily, RatOf(2)), RatOf(todayPrice))

\* line 98: todayPrice > (avgDaily * 2) && todayPrice > 1000
AbnormalVelocityOf(todayPrice, avgDaily) ==
    RatLt(RatMul(avgDaily, RatOf(2)), RatOf(todayPrice)) /\ todayPrice > 1000

\* line 115: avgWeekend > (avgWeekday * 1.5) && avgWeekend > 2000
WeekendSpikeOf(avgWeekend, avgWeekday) ==
    RatLt(RatMul(avgWeekday, Rat(15, 10)), avgWeekend) /\ RatLt(RatOf(2000), avgWeekend)

\* > 2 where the source has >= 2
LateNightSpikeAbove2(lateNightCount) == lateNightCount > 2

\* line 124: lateNightCount >= 2
LateNightSpikeOf(lateNightCount) == lateNightCount >= 2

runBehaviorModel(fin, t, zone) ==
    LET last7Days == last7DaysOf(t)
        recentExpenses ==
            SelectSeq(fin, LAMBDA f : f.type = "expense" /\ InLast7Days(f, last7Days))
        impulseCount == Len(SelectSeq(recentExpenses, IsImpulse))
        todayPrice ==
            SumAmount(SelectSeq(recentExpenses, LAMBDA f : f.dateISO = last7Days[1]))
        avgDaily == Rat(SumAmount(recentExpenses), 7)
        weekends == SelectSeq(recentExpenses, LAMBDA f : IsWeekend(f, zone))
        weekdays == SelectSeq(recentExpenses, LAMBDA f : IsWeekday(f, zone))
        avgWeekend == MeanAmount(weekends)
        avgWeekday == MeanAmount(weekdays)
        lateNightCount == Len(SelectSeq(recentExpenses, LAMBDA f : IsLateNight(f, zone)))
    IN  [categorySpikes |-> categorySpikesOf(recentExpenses),
         impulsePattern |-> impulseCount > 5,
         abnormalVelocity |-> AbnormalVelocityOf(todayPrice, avgDaily),
         weekendSpike |-> WeekendSpikeOf(avgWeekend, avgWeekday),
         lateNightSpike |-> LateNightSpikeOf(lateNightCount),
         recentFrequency |-> Len(recentExpenses)]

-----------------------------------------------------------------------------
(* FinancialEngine.getAlerts.  A message is its template text and the       *)
(* number interpolated for N (Null when the template has none).            *)

\* Math.round(utilization * 100)
UtilizationPercent(utilization) == MathRound(RatMul(utilization, RatOf(100)))

CriticalAlert(utilization) ==
    [type |-> "budget_critical",
     title |-> "Critical Budget Alert",
     message |-> [text |-> "You have exhausted N% of your monthly budget!",
                  N |-> Num(UtilizationPercent(utilization))]]

WarningAlert(utilization) ==
    [type |-> "budget_warning",
     title |-> "Budget Warning",
     message |-> [text |-> "You have used N% of your budget.",
                  N |-> Num(UtilizationPercent(utilization))]]

\* the critical alert raised from 75% instead of 90%
BudgetAlertsCriticalFrom75(st, budget) ==
    IF ToNumber(budget) > 0
    THEN LET utilization == Rat(st.monthExpenses, ToNumber(budget))
         IN  IF RatLe(Rat(75, 100), utilization) THEN <<CriticalAlert(utilization)>> ELSE <<>>
    ELSE <<>>

\* > where the source has >=
BudgetAlertsStrict(st, budget) ==
    IF ToNumber(budget) > 0
    THEN LET utilization == Rat(st.monthExpenses, ToNumber(budget))
         IN  IF RatLt(Rat(9, 10), utilization) THEN <<CriticalAlert(utilization)>>
             ELSE IF RatLt(Rat(75, 100), utilization) THEN <<WarningAlert(utilization)>>
                  ELSE <<>>
    ELSE <<>>

BudgetAlertsOf(st, budget) ==
    IF ToNumber(budget) > 0
    THEN LET utilization == Rat(st.monthExpenses, ToNumber(budget))
         IN  IF RatLe(Rat(9, 10), utilization) THEN <<CriticalAlert(utilization)>>
             ELSE IF RatLe(Rat(75, 100), utilization) THEN <<WarningAlert(utilization)>>
                  ELSE <<>>
    ELSE <<>>

PaceAlert ==
    [type |-> "velocity_spike",
     title |-> "Spending Spike",
     message |-> [text |-> "Your spending velocity is significantly higher than usual for this time of month.",
                 N |-> Null]]

LateNightAlert ==
    [type |-> "behavior_anomaly",
     title |-> "Late Night Spending",
     message |-> [text |-> "We noticed multiple late-night transactions. Consider setting a curfew for shopping apps!",
                 N |-> Null]]

TodayAlert ==
    [type |-> "velocity_spike",
     title |-> "Unusual Activity",
     message |-> [text |-> "Your spending today is more than double your daily average.",
                 N |-> Null]]

\* >= 40 where the source has > 40
VelocityAlertsFrom40(rk) == IF rk.overspendRisk >= 40 THEN <<PaceAlert>> ELSE <<>>

VelocityAlertsOf(rk) == IF rk.overspendRisk > 40 THEN <<PaceAlert>> ELSE <<>>

BehaviorAlertsOf(bh) ==
    (IF bh.lateNightSpike THEN <<LateNightAlert>> ELSE <<>>)
    \o (IF bh.abnormalVelocity THEN <<TodayAlert>> ELSE <<>>)

\* the behaviour rules evaluated before the velocity rule
AlertsBehaviorFirst(st, rk, bh, budget) ==
    BudgetAlertsOf(st, budget) \o BehaviorAlertsOf(bh) \o VelocityAlertsOf(rk)

\* lines 144-190: the alert list built from the three results
AlertsOf(st, rk, bh, budget) ==
    BudgetAlertsOf(st, budget) \o VelocityAlertsOf(rk) \o BehaviorAlertsOf(bh)

getAlerts(fin, budget, t, zone) ==
    LET st == calculateState(fin, budget, t, zone)
        rk == runRiskEngine(st, budget, t, zone)
        bh == runBehaviorModel(fin, t, zone)
    IN  AlertsOf(st, rk, bh, budget)

-----------------------------------------------------------------------------
(* Inputs.  Transactions as the expense form stores them (expense.js       *)
(* 421-432): dateISO is the calendar date <<year, month, day>>, timestamp  *)
(* an instant or Null, category a label ("undefined" when the record has   *)
(* none, which is the key JavaScript files it under).                      *)

Tx(id, type, amount, category, dateISO, timestamp) ==
    [id |-> id, type |-> type, amount |-> amount, category |-> category,
     dateISO |-> dateISO, timestamp |-> timestamp]

\* an instant: day index and minute of the UTC day
At(day, minute) == day * 1440 + minute

TxPool ==
    { Tx(1, "expense", 8000, "Food", <<2025, 4, 10>>, Num(At(99, 1050))),
      Tx(2, "expense", 1500, "Food", <<2025, 4, 10>>, Num(At(99, 0))),
      Tx(3, "expense", 7500, "Travel", <<2025, 4, 7>>, Null),
      Tx(4, "expense", 9000, "undefined", <<2025, 5, 2>>, Null),
      Tx(5, "expense", 5000, "Food", <<2025, 5, 1>>, Num(At(120, 1380))),
      Tx(6, "income", 20000, "Salary", <<2025, 4, 10>>, Null),
      Tx(7, "expense", 30000, "Travel", <<2025, 4, 30>>, Null),
      Tx(8, "income", 700, "Salary", <<2025, 5, 3>>, Num(At(122, 600))),
      Tx(9, "expense", 900, "Food", <<2025, 5, 3>>, Null) }

Budgets == {Null, Num(0), Num(10000), Num(40000)}

\* 2025-04-10, 2025-04-30, 2025-05-03
EvalDays == {99, 119, 122}
\* 01:00 and 21:00 UTC
EvalMinutes == {60, 1260}
\* UTC-5, UTC, UTC+5:30 (expense.js:10 names Asia/Kolkata)
TimeZones == {-300, 0, 330}

Ids(fin) == {fin[i].id : i \in 1..Len(fin)}

RemoveAt(s, i) == SubSeq(s, 1, i - 1) \o SubSeq(s, i + 1, Len(s))

\* snapshot.docs of a Firestore collection query: the documents in document-id order
InsertById(s, tx) ==
    LET before == SelectSeq(s, LAMBDA f : f.id < tx.id)
        after == SelectSeq(s, LAMBDA f : f.id > tx.id)
    IN  before \o <<tx>> \o after

-----------------------------------------------------------------------------
(* The engine applied to a ledger and a budget at the evaluation instant:  *)
(* the three calls of expense.js 141-143, the getAlerts call that          *)
(* processProactiveAlerts makes (expense.js 453) and the                   *)
(* calculateFinanceStats call of renderAnalytics (expense.js 308).         *)

Evaluate(fin, budget) ==
    /\ state' = calculateState(fin, budget, now, tz)
    /\ risks' = runRiskEngine(state', budget, now, tz)
    /\ behavior' = runBehaviorModel(fin, now, tz)
    /\ alerts' = getAlerts(fin, budget, now, tz)
    /\ stats' = calculateFinanceStats(fin, now)

Init ==
    /\ finances = <<>>
    /\ monthlyBudget = Null
    /\ now \in {At(d, m) : d \in EvalDays, m \in EvalMinutes}
    /\ tz \in TimeZones
    /\ state = calculateState(<<>>, Null, now, tz)
    /\ risks = runRiskEngine(calculateState(<<>>, Null, now, tz), Null, now, tz)
    /\ behavior = runBehaviorModel(<<>>, now, tz)
    /\ alerts = getAlerts(<<>>, Null, now, tz)
    /\ stats = calculateFinanceStats(<<>>, now)
    /\ script = "expense.js"
    /\ activities = <<>>
    /\ habitLogs = <<>>
    /\ habitStats = calculateHabitStats(<<>>, <<>>, now)
    /\ RaceIdle /\ StoreIdle /\ NoticeIdle /\ AIIdle

\* a transaction is saved (expense.js 421-434); the finances subscription
\* delivers the new collection and the engine is re-evaluated on it
AddTransaction(tx) ==
    /\ Len(finances) < MaxTx
    /\ tx.id \notin Ids(finances)
    /\ finances' = InsertById(finances, tx)
    /\ Evaluate(finances', monthlyBudget)
    /\ UNCHANGED <<monthlyBudget, now, tz>>
    /\ UNCHANGED <<habitVars, raceVars, storeVars, noticeVars, aiVars>>

\* a transaction is deleted (expense.js 300); the finances subscription
\* delivers the new collection and the engine is re-evaluated on it
DeleteTransaction(i) ==
    /\ i \in 1..Len(finances)
    /\ finances' = RemoveAt(finances, i)
    /\ Evaluate(finances', monthlyBudget)
    /\ UNCHANGED <<monthlyBudget, now, tz>>
    /\ UNCHANGED <<habitVars, raceVars, storeVars, noticeVars, aiVars>>

\* a budget is saved (expense.js 490-506, which rejects a negative value)
\* and the engine re-evaluated with it
SetBudget(b) ==
    /\ b # monthlyBudget
    /\ ToNumber(b) >= 0
    /\ monthlyBudget' = b
    /\ Evaluate(finances, monthlyBudget')
    /\ UNCHANGED <<finances, now, tz>>
    /\ UNCHANGED <<habitVars, raceVars, storeVars, noticeVars, aiVars>>

Next ==
    \/ \E tx \in TxPool : AddTransaction(tx)
    \/ \E i \in 1..MaxTx : DeleteTransaction(i)
    \/ \E b \in Budgets : SetBudget(b)

Spec == Init /\ [][Next]_vars

-----------------------------------------------------------------------------
(* The habit functions.  Two scripts of the repository keep habits: the    *)
(* habit page (habit.js), whose records are {id, name, streak} and whose   *)
(* log lists habit ids, and the single-page script at the end of           *)
(* financial-engine.js, whose records are {id, name, streak, lastDone} and *)
(* whose log lists habit names.  A habit's name is written as its id: ids  *)
(* are fresh UUIDs and the single-page script refuses a name twice.        *)
(* habitLogs is a function from the dates that have a log to the list of   *)
(* habits done on that date.                                               *)

MaxHabits == 2
MaxHabitDays == 3

HabitIds == 1..MaxHabits

\* 2025-05-01T10:00Z, which is 2025-05-01 15:30 in Asia/Kolkata
HabitStart == At(120, 600)

\* todayStr(): the calendar date in TIMEZONE = "Asia/Kolkata" (UTC+5:30)
todayStrAt(t) == DateOfDay(LocalDay(t, 330))

\* Date.UTC(y, m - 1, d), as an instant of the model (minutes, not milliseconds)
toUTC(iso) == DayOfDate(iso) * 1440

\* Math.round((toUTC(a) - toUTC(b)) / 86400000), a day being 1440 minutes
diffDays(a, b) == MathRound(Rat(toUTC(a) - toUTC(b), 1440))

\* list.includes(x)
Includes(list, x) == \E i \in 1..Len(list) : list[i] = x

\* habitLogs[date] = list
PutLog(logs, date, list) ==
    [d \in DOMAIN logs \cup {date} |-> IF d = date THEN list ELSE logs[d]]

\* the ids a habit has carried: crypto.randomUUID() returns none of them again
UsedIds ==
    {activities[i].id : i \in 1..Len(activities)}
    \cup {id \in HabitIds : \E d \in DOMAIN habitLogs : Includes(habitLogs[d], id)}

FreshId == CHOOSE id \in HabitIds \ UsedIds : \A other \in HabitIds \ UsedIds : id <= other

\* activities.find(a => a.id === id)
HasHabit(acts, id) == \E i \in 1..Len(acts) : acts[i].id = id
FindHabit(acts, id) == acts[CHOOSE i \in 1..Len(acts) : acts[i].id = id]

\* DBService.saveData(uid, 'activities', id, data): the record with that id replaced
ReplaceHabit(acts, data) == [i \in 1..Len(acts) |-> IF acts[i].id = data.id THEN data ELSE acts[i]]

\* the page is opened: nothing stored yet
HabitInit ==
    /\ script \in {"habit.js", "financial-engine.js"}
    /\ activities = <<>>
    /\ habitLogs = <<>>
    /\ now = HabitStart
    /\ habitStats = calculateHabitStats(<<>>, <<>>, now)
    /\ RaceIdle /\ StoreIdle /\ NoticeIdle /\ AIIdle
    /\ tz = 330
    /\ finances = <<>>
    /\ monthlyBudget = Null
    /\ state = calculateState(<<>>, Null, now, tz)
    /\ risks = runRiskEngine(calculateState(<<>>, Null, now, tz), Null, now, tz)
    /\ behavior = runBehaviorModel(<<>>, now, tz)
    /\ alerts = getAlerts(<<>>, Null, now, tz)
    /\ stats = calculateFinanceStats(<<>>, now)

financeVars == <<finances, monthlyBudget, tz, state, risks, behavior, alerts, stats>>

\* habit.js form.onsubmit: a habit is saved with streak 0
SubmitHabit ==
    /\ script = "habit.js"
    /\ HabitIds \ UsedIds # {}
    /\ activities' = Append(activities, [id |-> FreshId, streak |-> 0])
    /\ habitStats' = calculateHabitStats(activities', habitLogs, now)
    /\ UNCHANGED <<habitLogs, script, now, financeVars, raceVars, storeVars, noticeVars, aiVars>>

\* habit.js markDone: the log of today gains the id and the streak one
markDone(id) ==
    LET today == todayStrAt(now)
        current == LogOf(habitLogs, today)
        updated == Append(current, id)
    IN  /\ script = "habit.js"
        /\ HasHabit(activities, id)
        /\ ~Includes(current, id)
        /\ habitLogs' = PutLog(habitLogs, today, updated)
        /\ LET act == FindHabit(activities, id)
               newStreak == act.streak + 1
           IN  activities' = ReplaceHabit(activities, [act EXCEPT !.streak = newStreak])
        /\ habitStats' = calculateHabitStats(activities', habitLogs', now)
        /\ UNCHANGED <<script, now, financeVars, raceVars, storeVars, noticeVars, aiVars>>

\* habit.js deleteHabit: the record is deleted, the logs stay
deleteHabit(id) ==
    /\ script = "habit.js"
    /\ HasHabit(activities, id)
    /\ activities' = SelectSeq(activities, LAMBDA a : a.id # id)
    /\ habitStats' = calculateHabitStats(activities', habitLogs, now)
    /\ UNCHANGED <<habitLogs, script, now, financeVars, raceVars, storeVars, noticeVars, aiVars>>

\* financial-engine.js addHabit
addHabit ==
    /\ script = "financial-engine.js"
    /\ HabitIds \ UsedIds # {}
    /\ activities' = Append(activities, [id |-> FreshId, streak |-> 0, lastDone |-> Null])
    /\ UNCHANGED <<habitLogs, habitStats, script, now, financeVars, raceVars, storeVars, noticeVars, aiVars>>

\* financial-engine.js markHabitDone
markHabitDone(id) ==
    LET today == todayStrAt(now)
    IN  /\ script = "financial-engine.js"
        /\ HasHabit(activities, id)
        /\ LET a == FindHabit(activities, id)
               streak == IF a.lastDone = Null THEN 1
                         ELSE LET gap == diffDays(today, CHOOSE d \in a.lastDone : TRUE)
                              IN  IF gap = 1 THEN a.streak + 1 ELSE 1
           IN  /\ a.lastDone # {today}
               /\ activities' =
                     ReplaceHabit(activities, [a EXCEPT !.streak = streak, !.lastDone = {today}])
        /\ habitLogs' =
              IF Includes(LogOf(habitLogs, today), id) THEN PutLog(habitLogs, today, LogOf(habitLogs, today))
              ELSE PutLog(habitLogs, today, Append(LogOf(habitLogs, today), id))
        /\ UNCHANGED <<habitStats, script, now, financeVars, raceVars, storeVars, noticeVars, aiVars>>

\* financial-engine.js resetHabit
resetHabit(id) ==
    /\ script = "financial-engine.js"
    /\ HasHabit(activities, id)
    /\ LET a == FindHabit(activities, id)
       IN  /\ a.streak # 0 \/ a.lastDone # Null
           /\ activities' = ReplaceHabit(activities, [a EXCEPT !.streak = 0, !.lastDone = Null])
    /\ UNCHANGED <<habitLogs, habitStats, script, now, financeVars, raceVars, storeVars, noticeVars, aiVars>>

\* financial-engine.js deleteHabit
deleteHabitLegacy(id) ==
    /\ script = "financial-engine.js"
    /\ HasHabit(activities, id)
    /\ activities' = SelectSeq(activities, LAMBDA a : a.id # id)
    /\ UNCHANGED <<habitLogs, habitStats, script, now, financeVars, raceVars, storeVars, noticeVars, aiVars>>

\* a day passes
NextDay ==
    /\ now < HabitStart + MaxHabitDays * 1440
    /\ now' = now + 1440
    /\ UNCHANGED <<habitVars, financeVars, raceVars, storeVars, noticeVars, aiVars>>

HabitNext ==
    \/ SubmitHabit
    \/ \E id \in HabitIds : markDone(id)
    \/ \E id \in HabitIds : deleteHabit(id)
    \/ addHabit
    \/ \E id \in HabitIds : markHabitDone(id)
    \/ \E id \in HabitIds : resetHabit(id)
    \/ \E id \in HabitIds : deleteHabitLegacy(id)
    \/ NextDay

HabitSpec == HabitInit /\ [][HabitNext]_vars

-----------------------------------------------------------------------------
(* AIService.chatWithRetry (ai-service.js).  One step is one run of the    *)
(* function body: the guards, at most one request, and either a result or  *)
(* the recursive call with attempt + 1.                                    *)

\* what a request can come back with: a 2xx with a JSON body, a 2xx whose
\* body does not parse, the statuses 429, 401 and 500, and a failed fetch
Responses == {"ok", "bad body", "429", "401", "500", "network failure"}

\* majesticKey: a key when one is configured, else null
majesticKey == apiKeys

AIInit ==
    /\ apiKeys \in {{}, {"key"}}
    /\ attempt = 0
    /\ responses = <<>>
    /\ outcome = "idle"
    /\ script = "expense.js"
    /\ activities = <<>>
    /\ habitLogs = <<>>
    /\ habitStats = calculateHabitStats(<<>>, <<>>, HabitStart)
    /\ now = HabitStart
    /\ tz = 330
    /\ finances = <<>>
    /\ monthlyBudget = Null
    /\ state = calculateState(<<>>, Null, now, tz)
    /\ risks = runRiskEngine(calculateState(<<>>, Null, now, tz), Null, now, tz)
    /\ behavior = runBehaviorModel(<<>>, now, tz)
    /\ alerts = getAlerts(<<>>, Null, now, tz)
    /\ stats = calculateFinanceStats(<<>>, now)
    /\ RaceIdle /\ StoreIdle /\ NoticeIdle

offAI == <<finances, monthlyBudget, now, tz, state, risks, behavior, alerts, stats,
           habitVars, raceVars, storeVars, noticeVars>>

\* chat() calls chatWithRetry(payload) with attempt = 0
StartChat ==
    /\ outcome = "idle"
    /\ outcome' = "running"
    /\ attempt' = 0
    /\ responses' = <<>>
    /\ UNCHANGED <<apiKeys, offAI>>

\* line 18: attempt > 3
Exhausted ==
    /\ outcome = "running"
    /\ attempt > 3
    /\ outcome' = "rejected: exhausted"
    /\ UNCHANGED <<apiKeys, attempt, responses, offAI>>

\* line 21: no key
NoKey ==
    /\ outcome = "running"
    /\ attempt <= 3
    /\ majesticKey = {}
    /\ outcome' = "rejected: no key"
    /\ UNCHANGED <<apiKeys, attempt, responses, offAI>>

\* lines 23-50: the request and what follows from its response
Request(r) ==
    /\ outcome = "running"
    /\ attempt <= 3
    /\ majesticKey # {}
    /\ responses' = Append(responses, r)
    /\ IF r = "ok"
       THEN outcome' = "returned" /\ attempt' = attempt
       ELSE \* 429 and 401 by line 39; a thrown error (the fetch, the body,
            \* the Error of line 42) by the catch of line 46
            outcome' = "running" /\ attempt' = attempt + 1
    /\ UNCHANGED <<apiKeys, offAI>>

AINext ==
    \/ StartChat
    \/ Exhausted
    \/ NoKey
    \/ \E r \in Responses : Request(r)

AISpec == AIInit /\ [][AINext]_vars

-----------------------------------------------------------------------------
(* habit.js markDone step by step, for a signed-in user.  HabitSpec takes  *)
(* each handler together with the delivery of its writes; here the store   *)
(* (storeActivities, storeHabitLogs) and the page's copies (activities,    *)
(* habitLogs, assigned by the subscription callbacks of lines 41-54) are   *)
(* apart, and markDone stops at its first await: calls holds the           *)
(* invocations that have written the log and not yet the streak.           *)

MaxCalls == 2
MaxMarks == 3

StoreUsedIds == {storeActivities[i].id : i \in 1..Len(storeActivities)}

StoreFreshId ==
    CHOOSE id \in HabitIds \ StoreUsedIds : \A other \in HabitIds \ StoreUsedIds : id <= other

\* setDoc(doc(db, 'users', uid, collection, id), {...data, id}): replaced or created
SetDoc(docs, data) ==
    IF HasHabit(docs, data.id) THEN ReplaceHabit(docs, data) ELSE Append(docs, data)

\* the invocations in flight for one habit
InFlight(id) == Cardinality({i \in 1..Len(calls) : calls[i].id = id})

RaceInit ==
    /\ script = "habit.js"
    /\ activities = <<>>
    /\ habitLogs = <<>>
    /\ storeActivities = <<>>
    /\ storeHabitLogs = <<>>
    /\ calls = <<>>
    /\ now = HabitStart
    /\ habitStats = calculateHabitStats(<<>>, <<>>, now)
    /\ StoreIdle /\ NoticeIdle /\ AIIdle
    /\ tz = 330
    /\ finances = <<>>
    /\ monthlyBudget = Null
    /\ state = calculateState(<<>>, Null, now, tz)
    /\ risks = runRiskEngine(calculateState(<<>>, Null, now, tz), Null, now, tz)
    /\ behavior = runBehaviorModel(<<>>, now, tz)
    /\ alerts = getAlerts(<<>>, Null, now, tz)
    /\ stats = calculateFinanceStats(<<>>, now)

offRace == <<script, now, financeVars, storeVars, noticeVars, aiVars>>

\* form.onsubmit: the habit is written to the store with streak 0
RaceSubmitHabit ==
    /\ HabitIds \ StoreUsedIds # {}
    /\ storeActivities' = Append(storeActivities, [id |-> StoreFreshId, streak |-> 0])
    /\ UNCHANGED <<activities, habitLogs, habitStats, storeHabitLogs, calls, offRace>>

\* the 'activities' subscription callback with the store's latest snapshot
ActivitiesSnapshot ==
    /\ activities # storeActivities
    /\ activities' = storeActivities
    /\ habitStats' = calculateHabitStats(activities', habitLogs, now)
    /\ UNCHANGED <<habitLogs, storeActivities, storeHabitLogs, calls, offRace>>

\* the 'habitLogs' subscription callback with the store's latest snapshot
HabitLogsSnapshot ==
    /\ habitLogs # storeHabitLogs
    /\ habitLogs' = storeHabitLogs
    /\ habitStats' = calculateHabitStats(activities, habitLogs', now)
    /\ UNCHANGED <<activities, storeActivities, storeHabitLogs, calls, offRace>>

\* markDone, lines 148-153: the test on the page's log and the log's write
MarkDoneStart(id) ==
    LET today == todayStrAt(now)
        current == LogOf(habitLogs, today)
        updated == Append(current, id)
    IN  /\ HasHabit(activities, id)
        /\ Len(calls) < MaxCalls
        /\ FindHabit(activities, id).streak + InFlight(id) < MaxMarks
        /\ ~Includes(current, id)
        /\ storeHabitLogs' = PutLog(storeHabitLogs, today, updated)
        /\ calls' = Append(calls, [id |-> id])
        /\ UNCHANGED <<activities, habitLogs, habitStats, storeActivities, offRace>>

\* markDone, lines 155-159: after the await, the streak from the page's record
MarkDoneResume(i) ==
    /\ i \in 1..Len(calls)
    /\ LET id == calls[i].id
       IN  IF HasHabit(activities, id)
           THEN LET act == FindHabit(activities, id)
                    newStreak == act.streak + 1
                IN  storeActivities' =
                       SetDoc(storeActivities, [act EXCEPT !.streak = newStreak])
           ELSE UNCHANGED storeActivities
    /\ calls' = RemoveAt(calls, i)
    /\ UNCHANGED <<activities, habitLogs, habitStats, storeHabitLogs, offRace>>

RaceNext ==
    \/ RaceSubmitHabit
    \/ ActivitiesSnapshot
    \/ HabitLogsSnapshot
    \/ \E id \in HabitIds : MarkDoneStart(id)
    \/ \E i \in 1..MaxCalls : MarkDoneResume(i)

RaceSpec == RaceInit /\ [][RaceNext]_vars

-----------------------------------------------------------------------------
(* processProactiveAlerts (expense.js 450-473), called at the end of the   *)
(* finances subscription callback.  sessionStorage maps an alert key to    *)
(* the instant the alert was last shown; notifications collects the        *)
(* NotificationService.show calls as [alert, at].  Instants are minutes,   *)
(* so the window of 120 * 60 * 1000 ms is 120.                             *)

MaxNoticeHours == 3

\* the number of characters of a non-negative integer
Digits(n) ==
    IF n < 10 THEN 1 ELSE IF n < 100 THEN 2 ELSE IF n < 1000 THEN 3
    ELSE IF n < 10000 THEN 4 ELSE 5

\* alert.message.length: the template with its N replaced by the number
MessageLength(message) ==
    IF message.N = Null THEN Len(message.text)
    ELSE Len(message.text) - 1 + Digits(ToNumber(message.N))

\* line 456: `last_alert_${alert.type}_${alert.message.length}`
alertKeyOf(alert) == <<alert.type, MessageLength(alert.message)>>

\* line 461: !lastShown || (now - parseInt(lastShown)) > (120 * 60 * 1000)
MayShow(storage, key, t) ==
    \/ key \notin DOMAIN storage
    \/ t - storage[key] > 120

RECURSIVE processAlerts(_, _, _, _)
\* the forEach of lines 454-472 over the alerts, in order
processAlerts(list, storage, shown, t) ==
    IF list = <<>> THEN [storage |-> storage, shown |-> shown]
    ELSE LET alert == Head(list)
             alertKey == alertKeyOf(alert)
         IN  IF MayShow(storage, alertKey, t)
             THEN processAlerts(Tail(list),
                                [k \in DOMAIN storage \cup {alertKey} |->
                                    IF k = alertKey THEN t ELSE storage[k]],
                                shown \cup {[alert |-> alert, at |-> t]},
                                t)
             ELSE processAlerts(Tail(list), storage, shown, t)

processProactiveAlerts(fin, budget, t, zone, storage, shown) ==
    IF ~Truthy(budget) THEN [storage |-> storage, shown |-> shown]
    ELSE processAlerts(getAlerts(fin, budget, t, zone), storage, shown, t)

NoticePool ==
    { Tx(11, "expense", 9500, "Food", <<2025, 4, 10>>, Null),
      Tx(12, "expense", 100, "Food", <<2025, 4, 10>>, Null),
      Tx(13, "expense", 400, "Travel", <<2025, 4, 10>>, Null) }

NoticeBudgets == {Null, Num(10000)}

\* 2025-04-10T10:00Z
NoticeStart == At(99, 600)

NoticeInit ==
    /\ finances = <<>>
    /\ monthlyBudget = Null
    /\ now = NoticeStart
    /\ tz = 330
    /\ state = calculateState(<<>>, Null, now, tz)
    /\ risks = runRiskEngine(calculateState(<<>>, Null, now, tz), Null, now, tz)
    /\ behavior = runBehaviorModel(<<>>, now, tz)
    /\ alerts = getAlerts(<<>>, Null, now, tz)
    /\ stats = calculateFinanceStats(<<>>, now)
    /\ sessionStorage = <<>>
    /\ notifications = {}
    /\ script = "expense.js"
    /\ activities = <<>>
    /\ habitLogs = <<>>
    /\ habitStats = calculateHabitStats(<<>>, <<>>, now)
    /\ RaceIdle /\ StoreIdle /\ AIIdle

offNotice == <<habitVars, raceVars, storeVars, aiVars>>

\* the finances callback on a changed ledger, with its processProactiveAlerts call
NoticeDeliver(fin) ==
    /\ finances' = fin
    /\ Evaluate(fin, monthlyBudget)
    /\ LET done == processProactiveAlerts(fin, monthlyBudget, now, tz,
                                          sessionStorage, notifications)
       IN  /\ sessionStorage' = done.storage
           /\ notifications' = done.shown
    /\ UNCHANGED <<monthlyBudget, now, tz, offNotice>>

\* an entry is saved and the ledger delivered
NoticeAddTransaction(tx) ==
    /\ tx.id \notin Ids(finances)
    /\ NoticeDeliver(InsertById(finances, tx))

\* an entry is deleted and the ledger delivered
NoticeDeleteTransaction(i) ==
    /\ i \in 1..Len(finances)
    /\ NoticeDeliver(RemoveAt(finances, i))

\* the budget is saved and delivered: the budget callback shows no alerts
NoticeSetBudget(b) ==
    /\ b # monthlyBudget
    /\ monthlyBudget' = b
    /\ Evaluate(finances, monthlyBudget')
    /\ UNCHANGED <<finances, now, tz, noticeVars, offNotice>>

\* an hour passes
NoticeHour ==
    /\ now < NoticeStart + MaxNoticeHours * 60
    /\ now' = now + 60
    /\ UNCHANGED <<finances, monthlyBudget, tz, state, risks, behavior, alerts, stats,
                   noticeVars, offNotice>>

NoticeNext ==
    \/ \E tx \in NoticePool : NoticeAddTransaction(tx)
    \/ \E i \in 1..Cardinality(NoticePool) : NoticeDeleteTransaction(i)
    \/ \E b \in NoticeBudgets : NoticeSetBudget(b)
    \/ NoticeHour

NoticeSpec == NoticeInit /\ [][NoticeNext]_vars

-----------------------------------------------------------------------------
(* The expense page over DBService (db-service.js).  storeFinances,        *)
(* storeBudget and storeEngineState are the collections 'finances',        *)
(* 'monthlyBudget' and 'engineState', in localStorage when currentUser is  *)
(* empty and in Firestore otherwise.  finSnapshot and budSnapshot say that *)
(* a subscription has a snapshot to deliver.  state, risks and behavior    *)
(* are the dashboard's figures, alerts the list processProactiveAlerts     *)
(* last went through.                                                      *)

MaxEngineDocs == 6

\* i.id === id, for a stored record that may carry no id
HasId(doc, id) == "id" \in DOMAIN doc /\ doc.id = id

\* { ...data, id }
WithId(data, id) == [f \in DOMAIN data \cup {"id"} |-> IF f = "id" THEN id ELSE data[f]]

EngineDocIds == <<"behaviorProfile", "financialState", "riskSignals">>

EngineRank(id) == CHOOSE k \in 1..Len(EngineDocIds) : EngineDocIds[k] = id

\* how many documents precede id in a snapshot, which lists by document id
DocPosition(collectionName, docs, id) ==
    IF collectionName = "finances"
    THEN Cardinality({i \in 1..Len(docs) : docs[i].id < id})
    ELSE IF collectionName = "engineState"
    THEN Cardinality({i \in 1..Len(docs) : EngineRank(docs[i].id) < EngineRank(id)})
    ELSE 0

\* DBService.saveData(userId, collectionName, id, data) on the collection docs
saveData(userId, collectionName, docs, id, data) ==
    IF userId = {}
    THEN IF \E i \in 1..Len(docs) : HasId(docs[i], id)
         THEN LET idx == CHOOSE i \in 1..Len(docs) :
                            /\ HasId(docs[i], id)
                            /\ \A j \in 1..(i - 1) : ~HasId(docs[j], id)
              IN  [i \in 1..Len(docs) |-> IF i = idx THEN data ELSE docs[i]]
         ELSE Append(docs, data)
    ELSE LET finalData == WithId(data, id)
             rest == SelectSeq(docs, LAMBDA d : d.id # id)
             k == DocPosition(collectionName, rest, id)
         IN  SubSeq(rest, 1, k) \o <<finalData>> \o SubSeq(rest, k + 1, Len(rest))

\* DBService.deleteData(userId, collectionName, id) on the collection docs
deleteData(userId, docs, id) == SelectSeq(docs, LAMBDA d : ~HasId(d, id))

\* data.find(d => d.id === 'settings'), then settings ? settings.value : null
BudgetOf(data) ==
    IF \E i \in 1..Len(data) : HasId(data[i], "settings")
    THEN Num(data[CHOOSE i \in 1..Len(data) : HasId(data[i], "settings")].value)
    ELSE Null

\* what processProactiveAlerts goes through: nothing without a budget
ProcessedAlerts(fin, budget, t, zone) ==
    IF ~Truthy(budget) THEN <<>> ELSE getAlerts(fin, budget, t, zone)

EngineResults(fin, budget, t, zone) ==
    [state |-> calculateState(fin, budget, t, zone),
     risks |-> runRiskEngine(calculateState(fin, budget, t, zone), budget, t, zone),
     behavior |-> runBehaviorModel(fin, t, zone)]

PagePool ==
    { Tx(11, "expense", 9500, "Food", <<2025, 4, 10>>, Null),
      Tx(12, "expense", 100, "Food", <<2025, 4, 10>>, Null) }

PageBudgets == {10000, 40000}

\* the page as the script leaves it before any callback
PageLoaded ==
    /\ finances = <<>>
    /\ monthlyBudget = Null
    /\ currentEngineState = EmptyEngineState
    /\ state = calculateState(<<>>, Null, now, tz)
    /\ risks = runRiskEngine(calculateState(<<>>, Null, now, tz), Null, now, tz)
    /\ behavior = runBehaviorModel(<<>>, now, tz)
    /\ alerts = <<>>
    /\ stats = calculateFinanceStats(<<>>, now)
    /\ finSnapshot = TRUE
    /\ budSnapshot = TRUE

PageInit ==
    /\ currentUser \in {{}, {"uid"}}
    /\ storeFinances = <<>>
    /\ storeBudget = <<>>
    /\ storeEngineState = <<>>
    /\ now = NoticeStart
    /\ tz = 330
    /\ PageLoaded
    /\ script = "expense.js"
    /\ activities = <<>>
    /\ habitLogs = <<>>
    /\ habitStats = calculateHabitStats(<<>>, <<>>, now)
    /\ RaceIdle /\ NoticeIdle /\ AIIdle

\* from localStorage both callbacks run inside subscribe, within the handler of
\* onUserChange: no click comes between them
Interactive == currentUser = {} => (~finSnapshot /\ ~budSnapshot)

offPage == <<now, tz, currentUser, habitVars, raceVars, noticeVars, aiVars>>

pageVars == <<finances, monthlyBudget, currentEngineState, state, risks, behavior, alerts, stats>>

\* form.onsubmit: the entry is saved; Firestore then has a snapshot to deliver
SubmitEntry(tx) ==
    /\ Interactive
    /\ \A i \in 1..Len(storeFinances) : storeFinances[i].id # tx.id
    /\ storeFinances' = saveData(currentUser, "finances", storeFinances, tx.id, tx)
    /\ finSnapshot' = (finSnapshot \/ currentUser # {})
    /\ UNCHANGED <<pageVars, storeBudget, storeEngineState, budSnapshot, offPage>>

\* deleteEntry on an entry the page lists
deleteEntry(id) ==
    /\ Interactive
    /\ id \in Ids(finances)
    /\ storeFinances' = deleteData(currentUser, storeFinances, id)
    /\ finSnapshot' = (finSnapshot \/ (currentUser # {} /\ storeFinances' # storeFinances))
    /\ UNCHANGED <<pageVars, storeBudget, storeEngineState, budSnapshot, offPage>>

\* budgetSave.onclick: the budget is saved and assigned to monthlyBudget
SaveBudget(value) ==
    /\ Interactive
    /\ monthlyBudget # Num(value)
    /\ storeBudget' = saveData(currentUser, "monthlyBudget", storeBudget, "settings",
                               [id |-> "settings", value |-> value])
    /\ monthlyBudget' = Num(value)
    /\ budSnapshot' = (budSnapshot \/ (currentUser # {} /\ storeBudget' # storeBudget))
    /\ UNCHANGED <<finances, currentEngineState, state, risks, behavior, alerts, stats,
                   storeFinances, storeEngineState, finSnapshot, offPage>>

\* the 'finances' subscription callback, lines 137-159
FinancesCallback ==
    /\ finSnapshot
    /\ finances' = storeFinances
    /\ LET results == EngineResults(finances', monthlyBudget, now, tz)
       IN  /\ state' = results.state
           /\ risks' = results.risks
           /\ behavior' = results.behavior
           /\ storeEngineState' =
                 saveData(currentUser, "engineState",
                    saveData(currentUser, "engineState",
                       saveData(currentUser, "engineState", storeEngineState,
                                "financialState", results.state),
                       "riskSignals", results.risks),
                    "behaviorProfile", results.behavior)
           /\ currentEngineState' = results
    /\ stats' = calculateFinanceStats(finances', now)
    /\ alerts' = ProcessedAlerts(finances', monthlyBudget, now, tz)
    /\ finSnapshot' = FALSE
    /\ UNCHANGED <<monthlyBudget, storeFinances, storeBudget, budSnapshot, offPage>>

\* the 'monthlyBudget' subscription callback, lines 161-182; from localStorage
\* subscribe calls back at once, so 'finances' has called back before it
BudgetCallback ==
    /\ budSnapshot
    /\ currentUser = {} => ~finSnapshot
    /\ monthlyBudget' = BudgetOf(storeBudget)
    /\ LET results == EngineResults(finances, monthlyBudget', now, tz)
       IN  /\ state' = results.state
           /\ risks' = results.risks
           /\ behavior' = results.behavior
    /\ budSnapshot' = FALSE
    /\ UNCHANGED <<finances, currentEngineState, alerts, stats,
                   storeFinances, storeBudget, storeEngineState, finSnapshot, offPage>>

\* the page is loaded again: the script's state starts over, the store stays
ReloadPage ==
    /\ Len(storeEngineState) < MaxEngineDocs
    /\ ~finSnapshot /\ ~budSnapshot
    /\ finances' = <<>>
    /\ monthlyBudget' = Null
    /\ currentEngineState' = EmptyEngineState
    /\ state' = calculateState(<<>>, Null, now, tz)
    /\ risks' = runRiskEngine(calculateState(<<>>, Null, now, tz), Null, now, tz)
    /\ behavior' = runBehaviorModel(<<>>, now, tz)
    /\ alerts' = <<>>
    /\ stats' = calculateFinanceStats(<<>>, now)
    /\ finSnapshot' = TRUE
    /\ budSnapshot' = TRUE
    /\ UNCHANGED <<storeFinances, storeBudget, storeEngineState, offPage>>

PageNext ==
    \/ \E tx \in PagePool : SubmitEntry(tx)
    \/ \E id \in {tx.id : tx \in PagePool} : deleteEntry(id)
    \/ \E value \in PageBudgets : SaveBudget(value)
    \/ FinancesCallback
    \/ BudgetCallback
    \/ ReloadPage

PageSpec == PageInit /\ [][PageNext]_vars

\* the steps of PageSpec that deliver a snapshot: those of FinancesCallback
\* and of BudgetCallback, the only actions that lower the two flags
FinancesDelivered == finSnapshot /\ finSnapshot' = FALSE
BudgetDelivered == budSnapshot /\ budSnapshot' = FALSE

\* a snapshot that is there to deliver is delivered
FairPageSpec ==
    PageSpec /\ WF_finSnapshot(FinancesDelivered) /\ WF_budSnapshot(BudgetDelivered)

-----------------------------------------------------------------------------
(* Reference quantities for the properties, computed from the ledger and   *)
(* the clock without the engine's filters.                                 *)

RECURSIVE SumOver(_, _)
SumOver(fin, I) ==
    IF I = {} THEN 0
    ELSE LET i == CHOOSE j \in I : TRUE IN fin[i].amount + SumOver(fin, I \ {i})

\* the year and month of the UTC calendar date of the evaluation instant
InCurrentMonth(f) ==
    f.dateISO[1] = toISODate(now)[1] /\ f.dateISO[2] = toISODate(now)[2]

ExpenseIdx == {i \in 1..Len(finances) : finances[i].type = "expense"}
IncomeIdx == {i \in 1..Len(finances) : finances[i].type = "income"}
MonthExpenseIdx == {i \in ExpenseIdx : InCurrentMonth(finances[i])}
OtherExpenseIdx == {i \in ExpenseIdx : ~InCurrentMonth(finances[i])}
MonthIncomeIdx == {i \in IncomeIdx : InCurrentMonth(finances[i])}

BudgetValue == ToNumber(monthlyBudget)
NoBudget == monthlyBudget = Null \/ monthlyBudget = Num(0)
CurrentDay == getDate(now, tz)
DaysInMonth == daysInMonthOf(now, tz)

HasType(type) == \E i \in 1..Len(alerts) : alerts[i].type = type
HasAlert(a) == \E i \in 1..Len(alerts) : alerts[i] = a

-----------------------------------------------------------------------------
(* C1 *)

\* C1: overspendRisk >= 0 and 0 <= riskScore <= 100 for every state and budget;
\* with a null or zero budget all three signals are 0.
C1_RiskScoreBounded ==
    /\ risks.overspendRisk >= 0
    /\ risks.riskScore >= 0
    /\ risks.riskScore <= 100
    /\ NoBudget => risks = [overspendRisk |-> 0, deficitRisk |-> 0, riskScore |-> 0]

\* the composite score is cut at 100: 0.6 * overspend + 0.4 * deficit is above it
C1_Witness ==
    /\ BudgetValue > 0
    /\ risks.riskScore = 100
    /\ 6 * risks.overspendRisk + 4 * risks.deficitRisk > 1000

-----------------------------------------------------------------------------
(* C2 *)

\* C2 as stated: with a positive budget each of overspendRisk, deficitRisk and
\* riskScore is an integer in [0,100].
C2_AllSignalsWithin100 ==
    BudgetValue > 0 =>
        /\ risks.overspendRisk \in 0..100
        /\ risks.deficitRisk \in 0..100
        /\ risks.riskScore \in 0..100

\* C2 amended: with a positive budget deficitRisk and riskScore are integers in
\* [0,100]; overspendRisk is a non-negative integer that is not cut at 100 and is
\* at most the budget-used percent rounded to the nearest integer.
C2_DeficitAndScoreWithin100 ==
    BudgetValue > 0 =>
        /\ risks.deficitRisk \in 0..100
        /\ risks.riskScore \in 0..100
        /\ risks.overspendRisk \in Nat
        /\ risks.overspendRisk
             <= (200 * SumOver(finances, MonthExpenseIdx) + BudgetValue) \div (2 * BudgetValue)

\* month expenses several times the budget: overspendRisk above 100, deficit cut at 100
C2_Witness ==
    /\ BudgetValue > 0
    /\ state.monthExpenses >= 3 * BudgetValue
    /\ risks.overspendRisk > 100
    /\ risks.deficitRisk = 100

-----------------------------------------------------------------------------
(* C3 *)

\* C3: whenever the budget is null or <= 0, safetyLevel is Stable, whatever the
\* transactions.
C3_StableWithoutBudget ==
    BudgetValue <= 0 => state.safetyLevel = "Stable"

-----------------------------------------------------------------------------
(* C4 *)

\* C4: for a positive budget, with projectedEndBalance = budget -
\* (monthExpenses / currentDay) * daysInMonth, safetyLevel is Critical exactly
\* when projectedEndBalance < 0, Warning exactly when
\* 0 <= projectedEndBalance < 0.15 * budget, and Stable otherwise.
C4_SafetyLevelThresholds ==
    BudgetValue > 0 =>
        LET \* projectedEndBalance * currentDay
            projTimesDay == BudgetValue * CurrentDay - state.monthExpenses * DaysInMonth
        IN  /\ state.projectedEndBalance = Rat(projTimesDay, CurrentDay)
            /\ state.safetyLevel = "Critical" <=> projTimesDay < 0
            /\ state.safetyLevel = "Warning" <=>
                   (projTimesDay >= 0 /\ 100 * projTimesDay < 15 * BudgetValue * CurrentDay)
            /\ state.safetyLevel = "Stable" <=>
                   100 * projTimesDay >= 15 * BudgetValue * CurrentDay

\* a positive projection under 15% of the budget
C4_Witness ==
    /\ BudgetValue > 0
    /\ state.monthExpenses > 0
    /\ state.safetyLevel = "Warning"
    /\ RatLt(RatOf(0), state.projectedEndBalance)

-----------------------------------------------------------------------------
(* C5 *)

\* C5: monthExpenses plus the sum of the expenses dated outside the current
\* year-month equals the sum of all expenses, in calculateState and in
\* calculateFinanceStats; income transactions count on neither side.
C5_ExpensePartition ==
    /\ state.monthExpenses + SumOver(finances, OtherExpenseIdx)
         = SumOver(finances, ExpenseIdx)
    /\ stats.monthlyExpenses = state.monthExpenses
    /\ stats.totalExpenses = SumOver(finances, ExpenseIdx)
    /\ stats.totalExpenses - stats.monthlyExpenses = SumOver(finances, OtherExpenseIdx)
    /\ state.monthExpenses = SumOver(finances, MonthExpenseIdx)

\* a ledger with an expense of this month, an expense of another month and an
\* income of this month
C5_Witness ==
    /\ MonthExpenseIdx # {}
    /\ OtherExpenseIdx # {}
    /\ MonthIncomeIdx # {}
    /\ state.monthExpenses > 0

-----------------------------------------------------------------------------
(* C6 *)

\* C6: at most one budget alert per call; with utilization = monthExpenses /
\* budget, budget_critical when utilization >= 0.90, otherwise budget_warning
\* when utilization >= 0.75, otherwise none; never both.
C6_OneBudgetAlert ==
    /\ Cardinality({i \in 1..Len(alerts) :
                       alerts[i].type \in {"budget_critical", "budget_warning"}}) <= 1
    /\ ~(HasType("budget_critical") /\ HasType("budget_warning"))
    /\ BudgetValue > 0 =>
        LET spent == SumOver(finances, MonthExpenseIdx)
        IN  /\ HasType("budget_critical") <=> 10 * spent >= 9 * BudgetValue
            /\ HasType("budget_warning") <=>
                   (10 * spent < 9 * BudgetValue /\ 4 * spent >= 3 * BudgetValue)

\* utilization exactly 0.90
C6_Witness ==
    /\ BudgetValue > 0
    /\ 10 * state.monthExpenses = 9 * BudgetValue
    /\ HasType("budget_critical")

-----------------------------------------------------------------------------
(* C7 *)

\* the rule an alert comes from
RuleOf(a) ==
    IF a.type \in {"budget_critical", "budget_warning"} THEN 1
    ELSE IF a = PaceAlert THEN 2
    ELSE IF a = LateNightAlert THEN 3
    ELSE IF a = TodayAlert THEN 4
    ELSE 0

\* C7: the alerts come in rule order (budget alert, pace velocity_spike,
\* behavior_anomaly, today's velocity_spike), each rule giving at most one alert,
\* so at most four alerts.
C7_AlertsInRuleOrder ==
    /\ Len(alerts) <= 4
    /\ \A i \in 1..Len(alerts) : RuleOf(alerts[i]) \in 1..4
    /\ \A i, j \in 1..Len(alerts) : i < j => RuleOf(alerts[i]) < RuleOf(alerts[j])

\* all four rules fire in one call, both velocity_spike alerts among them
C7_Witness ==
    /\ Len(alerts) = 4
    /\ alerts[2] = PaceAlert
    /\ alerts[4] = TodayAlert

-----------------------------------------------------------------------------
(* C8 *)

\* (budget-used percent - days-elapsed percent) * budget * daysInMonth / 100
PaceExcess == state.monthExpenses * DaysInMonth - CurrentDay * BudgetValue

\* C8 as stated: the pace velocity_spike is present exactly when
\* max(0, budget-used percent - days-elapsed percent) > 40.
C8_PaceAlertAbove40 ==
    BudgetValue > 0 =>
        (HasAlert(PaceAlert) <=> 100 * PaceExcess > 40 * BudgetValue * DaysInMonth)

\* C8 amended: the pace velocity_spike is present exactly when overspendRisk
\* rounded to the nearest integer is greater than 40, that is when
\* budget-used percent - days-elapsed percent >= 40.5; without a budget it is
\* absent.
C8_PaceAlertAboveRounded40 ==
    IF BudgetValue > 0
    THEN HasAlert(PaceAlert) <=> 200 * PaceExcess >= 81 * BudgetValue * DaysInMonth
    ELSE ~HasAlert(PaceAlert)

\* budget 10000, month expenses 8000, day 10 of a 30-day month
C8_Witness ==
    /\ monthlyBudget = Num(10000)
    /\ state.monthExpenses = 8000
    /\ CurrentDay = 10
    /\ DaysInMonth = 30
    /\ HasAlert(PaceAlert)

-----------------------------------------------------------------------------
(* C9 *)

\* C9: with a null or zero budget there is no budget_critical, no
\* budget_warning and no pace velocity_spike, the risk signals are all 0, and
\* monthExpenses and monthIncome are still the ledger's sums for the month.
C9_NoBudgetShortCircuit ==
    NoBudget =>
        /\ ~HasType("budget_critical")
        /\ ~HasType("budget_warning")
        /\ ~HasAlert(PaceAlert)
        /\ risks.overspendRisk = 0 /\ risks.deficitRisk = 0 /\ risks.riskScore = 0
        /\ state.monthExpenses = SumOver(finances, MonthExpenseIdx)
        /\ state.monthIncome = SumOver(finances, MonthIncomeIdx)

\* no budget, and both expenses and income in the month
C9_Witness ==
    /\ NoBudget
    /\ state.monthExpenses > 0
    /\ state.monthIncome > 0

-----------------------------------------------------------------------------
(* C10 *)

\* C10: for an empty ledger every derived sum, count and flag is zero/false
\* and there are no alerts; with a null budget, in addition, balanceLeft,
\* burnRatePerDay, projectedEndBalance, monthExpenses and monthIncome are 0 and
\* safetyLevel is Stable.
C10_EmptyLedgerDefaults ==
    finances = <<>> =>
        /\ state.monthExpenses = 0 /\ state.monthIncome = 0
        /\ state.burnRatePerDay = RatOf(0)
        /\ state.balanceLeft = BudgetValue
        /\ state.projectedEndBalance = RatOf(BudgetValue)
        /\ state.safetyLevel = "Stable"
        /\ risks = [overspendRisk |-> 0, deficitRisk |-> 0, riskScore |-> 0]
        /\ behavior = [categorySpikes |-> <<>>, impulsePattern |-> FALSE,
                       abnormalVelocity |-> FALSE, weekendSpike |-> FALSE,
                       lateNightSpike |-> FALSE, recentFrequency |-> 0]
        /\ alerts = <<>>
        /\ monthlyBudget = Null =>
             /\ state.balanceLeft = 0
             /\ state.projectedEndBalance = RatOf(0)

\* Scenario D: the engine evaluated on no transactions and no budget
C10_Witness ==
    /\ finances = <<>>
    /\ monthlyBudget = Null
    /\ state.safetyLevel = "Stable"
    /\ alerts = <<>>

-----------------------------------------------------------------------------
(* Reference quantities for the behaviour model: the trailing window and   *)
(* the calendar weekday of a date, taken from the dates themselves.        *)

\* the day index of the UTC calendar date of the evaluation instant
UtcToday == now \div 1440

\* the expenses dated on one of the 7 days ending at the evaluation date
WindowIdx ==
    {i \in ExpenseIdx :
        /\ DayOfDate(finances[i].dateISO) >= UtcToday - 6
        /\ DayOfDate(finances[i].dateISO) <= UtcToday}

\* the weekday of a calendar date, 0 = Sunday (2025-01-01 is a Wednesday)
WeekdayOfDate(date) == (DayOfDate(date) + 3) % 7

WeekendDatedIdx == {i \in WindowIdx : WeekdayOfDate(finances[i].dateISO) \in {0, 6}}
WeekdayDatedIdx == {i \in WindowIdx : WeekdayOfDate(finances[i].dateISO) \in 1..5}

GroupSize(I) == IF I = {} THEN 1 ELSE Cardinality(I)

\* the minute of the local day of a timestamp
MinuteOfDay(ts) == (ToNumber(ts) + tz) % 1440

StampedIdx == {i \in WindowIdx : finances[i].timestamp # Null}

\* window expenses stamped in the hours 22, 23, 0, 1, 2, 3, 4 or 5
LateHourIdx ==
    {i \in StampedIdx : MinuteOfDay(finances[i].timestamp) \div 60 \in {22, 23, 0, 1, 2, 3, 4, 5}}

\* window expenses stamped in [22:00, 24:00) or [00:00, 05:00]
LateUntil0500Idx ==
    {i \in StampedIdx :
        \/ MinuteOfDay(finances[i].timestamp) >= 22 * 60
        \/ MinuteOfDay(finances[i].timestamp) <= 5 * 60}

CategoryLabels == {tx.category : tx \in TxPool}

WindowTotal(cat) == SumOver(finances, {i \in WindowIdx : finances[i].category = cat})

InSpikes(cat) ==
    \E i \in 1..Len(behavior.categorySpikes) : behavior.categorySpikes[i] = cat

TodayTotal == SumOver(finances, {i \in WindowIdx : DayOfDate(finances[i].dateISO) = UtcToday})

-----------------------------------------------------------------------------
(* C12 *)

\* C12: weekendSpike is false whenever every expense of the trailing 7-day
\* window is dated Monday to Friday; when it is true, the mean of the
\* weekend-dated expenses exceeds 1.5 times the mean of the weekday-dated
\* expenses and exceeds 2000, an empty group's mean being 0.
C12_WeekendSpikeNeedsWeekendDates ==
    /\ (WeekendDatedIdx = {}) => ~behavior.weekendSpike
    /\ behavior.weekendSpike =>
          /\ 2 * SumOver(finances, WeekendDatedIdx) * GroupSize(WeekdayDatedIdx)
                > 3 * SumOver(finances, WeekdayDatedIdx) * GroupSize(WeekendDatedIdx)
          /\ SumOver(finances, WeekendDatedIdx) > 2000 * GroupSize(WeekendDatedIdx)

-----------------------------------------------------------------------------
(* C13 *)

-----------------------------------------------------------------------------
(* C14 *)

\* C14: an expense counts as late-night exactly when its time of day lies in
\* [22:00, 24:00) or [00:00, 05:00]: lateNightSpike is raised by 2 or more
\* expenses stamped in that range and by nothing stamped after 05:00 and
\* before 22:00.
C14_LateNightUntil0500 ==
    behavior.lateNightSpike <=> Cardinality(LateUntil0500Idx) >= 2

-----------------------------------------------------------------------------
(* C15 *)

\* C15: categorySpikes holds exactly the categories whose expenses of the
\* trailing 7-day window sum to more than 5000, each once; income and
\* expenses outside the window add nothing.
C15_CategorySpikesAbove5000 ==
    /\ \A cat \in CategoryLabels : InSpikes(cat) <=> WindowTotal(cat) > 5000
    /\ \A i \in 1..Len(behavior.categorySpikes) :
          /\ behavior.categorySpikes[i] \in CategoryLabels
          /\ \A j \in 1..Len(behavior.categorySpikes) :
                behavior.categorySpikes[i] = behavior.categorySpikes[j] => i = j

\* a category at exactly 5000 in the window, with more outside it, next to a spike
C15_Witness ==
    /\ \E cat \in CategoryLabels :
          /\ WindowTotal(cat) = 5000
          /\ \E i \in ExpenseIdx \ WindowIdx : finances[i].category = cat
          /\ ~InSpikes(cat)
    /\ \E cat \in CategoryLabels : WindowTotal(cat) > 5000 /\ InSpikes(cat)

-----------------------------------------------------------------------------
(* C16 *)

\* C16: abnormalVelocity is true exactly when today's expense total exceeds
\* twice the window total divided by 7 and exceeds 1000; it is never true
\* when today's total is at most 1000.
C16_AbnormalVelocityRule ==
    /\ behavior.abnormalVelocity <=>
          (7 * TodayTotal > 2 * SumOver(finances, WindowIdx) /\ TodayTotal > 1000)
    /\ TodayTotal <= 1000 => ~behavior.abnormalVelocity

\* today's total is over twice the average but not over 1000
C16_Witness ==
    /\ TodayTotal > 0
    /\ TodayTotal <= 1000
    /\ 7 * TodayTotal > 2 * SumOver(finances, WindowIdx)
    /\ ~behavior.abnormalVelocity

-----------------------------------------------------------------------------
(* C17 *)

\* C17: an expense without a category adds to no category total: every
\* label in categorySpikes is the category of a categorised expense of the
\* window.
C17_UncategorisedNeverSpikes ==
    \A i \in 1..Len(behavior.categorySpikes) :
        \E j \in WindowIdx :
            /\ finances[j].category # "undefined"
            /\ finances[j].category = behavior.categorySpikes[i]

-----------------------------------------------------------------------------
(* C18 *)

\* the year and month calculateState selects transactions by
SelectionMonth == SubSeq(toISODate(now), 1, 2)

\* C18: the year-month that selects the current month's transactions, the
\* day of month that divides the burn rate and the days in month of the
\* projection belong to one calendar date.
C18_OneCalendarDate ==
    \E day \in {UtcToday, LocalDay(now, tz)} :
        /\ SubSeq(DateOfDay(day), 1, 2) = SelectionMonth
        /\ DateOfDay(day)[3] = CurrentDay
        /\ MonthLen[DateOfDay(day)[2]] = DaysInMonth
        /\ state.burnRatePerDay = Rat(state.monthExpenses, DateOfDay(day)[3])
        /\ state.projectedEndBalance =
              RatSub(RatOf(IF NoBudget THEN 0 ELSE BudgetValue),
                     RatMul(Rat(state.monthExpenses, DateOfDay(day)[3]),
                            RatOf(MonthLen[DateOfDay(day)[2]])))

-----------------------------------------------------------------------------
(* C20 *)

\* the habit is listed on that date in the log
DoneOn(logs, id, date) == Includes(LogOf(logs, date), id)

StreakOf(acts, id) == FindHabit(acts, id).streak

\* the step marks the habit done today: the log of today gains it
MarksDone(id) ==
    /\ HasHabit(activities, id)
    /\ HasHabit(activities', id)
    /\ ~DoneOn(habitLogs, id, todayStrAt(now))
    /\ DoneOn(habitLogs', id, todayStrAt(now))

\* C20: in either script, marking a habit done on day D sets its streak to
\* the previous streak + 1 when it was last done on day D-1, and to 1
\* otherwise (never done before, or last done two or more days earlier).
C20_StreakRule ==
    [][\A id \in HabitIds :
          MarksDone(id) =>
             StreakOf(activities', id) =
                IF DoneOn(habitLogs, id, DateOfDay(DayOfDate(todayStrAt(now)) - 1))
                THEN StreakOf(activities, id) + 1
                ELSE 1]_vars

-----------------------------------------------------------------------------
(* C26 *)

-----------------------------------------------------------------------------
(* C27 *)

\* C27: when the alerts contain budget_critical the safety level is Warning
\* or Critical, never Stable; when they contain the pace alert the risk
\* score is above 0.
C27_AlertsAgreeWithState ==
    /\ HasType("budget_critical") => state.safetyLevel \in {"Warning", "Critical"}
    /\ HasAlert(PaceAlert) => risks.riskScore > 0

\* a critical budget alert while the projection is still positive
C27_Witness ==
    /\ HasType("budget_critical")
    /\ state.safetyLevel = "Warning"

-----------------------------------------------------------------------------
(* C23 *)

-----------------------------------------------------------------------------
(* C25 *)

\* C25: in every state reached by adding habits, marking them done and
\* deleting them, weeklyCompletion is a percentage from 0 to 100.
C25_WeeklyCompletionIsPercent ==
    script = "habit.js" => (habitStats.weeklyCompletion >= 0 /\ habitStats.weeklyCompletion <= 100)

-----------------------------------------------------------------------------
(* C30 *)

\* the step issues a request
IssuesRequest == Len(responses') = Len(responses) + 1

\* C30: a call issues at most 4 requests, issues none without an API key,
\* and issues a further request only after a 429 or 401 response or a
\* network failure.
C30_RetryOnlyOnKeyOrNetworkFailure ==
    [][/\ Len(responses') <= 4
       /\ apiKeys = {} => responses' = <<>>
       /\ (IssuesRequest /\ responses # <<>>) =>
             responses[Len(responses)] \in {"429", "401", "network failure"}]_vars

-----------------------------------------------------------------------------
(* C24 *)

\* the step runs processProactiveAlerts past its budget test
ProcessesAlerts == finances' # finances /\ Truthy(monthlyBudget)

ShownWithin(alert, minutes) ==
    \E n \in notifications : n.alert = alert /\ now - n.at <= minutes

\* C24: an alert equal in type and message to one shown less than 2 hours
\* earlier is not shown again, and an alert that differs in type or message
\* from every alert shown in the last 2 hours is shown.
C24_DedupByTypeAndMessage ==
    [][ProcessesAlerts =>
          LET list == getAlerts(finances', monthlyBudget, now, tz)
          IN  \A i \in 1..Len(list) :
                 /\ ShownWithin(list[i], 119) =>
                       [alert |-> list[i], at |-> now] \notin notifications' \ notifications
                 /\ ~ShownWithin(list[i], 120) =>
                       [alert |-> list[i], at |-> now] \in notifications']_vars

-----------------------------------------------------------------------------
(* C21 *)

Occurrences(list, id) == Cardinality({i \in 1..Len(list) : list[i] = id})

\* C21: however the mark-done invocations of one day interleave (the clock of
\* RaceSpec stays within 2025-05-01 and every habit starts at streak 0), a
\* habit's stored streak has grown by at most one, and its id stands at most
\* once in the day's log.
C21_MarkDoneOncePerDay ==
    /\ \A i \in 1..Len(storeActivities) : storeActivities[i].streak <= 1
    /\ \A d \in DOMAIN storeHabitLogs : \A id \in HabitIds :
          Occurrences(storeHabitLogs[d], id) <= 1

-----------------------------------------------------------------------------
(* C22 *)

\* C22: whenever the stored ledger differs from the one the finances callback
\* last ran on, the callback eventually runs on the stored ledger, signed in
\* or not.
C22_MutationLeadsToCallback ==
    (finances # storeFinances) ~> (finances = storeFinances)

-----------------------------------------------------------------------------
(* C28 *)

BothDelivered ==
    /\ ~finSnapshot /\ ~budSnapshot
    /\ finances = storeFinances
    /\ monthlyBudget = BudgetOf(storeBudget)

\* C28: once both subscriptions have delivered their latest snapshots, the
\* chat's context and the alerts processed are the engine's results for the
\* current ledger with the current budget.
C28_EngineStateFollowsBothSnapshots ==
    BothDelivered =>
       /\ currentEngineState = EngineResults(finances, monthlyBudget, now, tz)
       /\ alerts = ProcessedAlerts(finances, monthlyBudget, now, tz)

-----------------------------------------------------------------------------
(* C29 *)

DocsWithId(docs, id) == {i \in 1..Len(docs) : HasId(docs[i], id)}

\* C29: every collection holds at most one record for an id, and once the
\* engine's records have been saved each of the three ids reads back exactly
\* one record, in localStorage as in Firestore.
C29_SaveDataIsUpsert ==
    /\ \A tx \in PagePool : Cardinality(DocsWithId(storeFinances, tx.id)) <= 1
    /\ Cardinality(DocsWithId(storeBudget, "settings")) <= 1
    /\ Len(storeBudget) <= 1
    /\ Len(storeEngineState) <= Len(EngineDocIds)
    /\ storeEngineState # <<>> =>
          \A k \in 1..Len(EngineDocIds) :
             Cardinality(DocsWithId(storeEngineState, EngineDocIds[k])) = 1

====
